---- MODULE Spec2Model ----
(***************************************************************************)
(* The stability service of reefer-plan: one FastAPI application with one  *)
(* route, POST /calculate-stability, served by the coroutine               *)
(* calculate_stability(data: dict) of src/stability-service/main.py.       *)
(*                                                                         *)
(* A request goes through four steps: the client posts a JSON body, the    *)
(* framework validates the body against the parameter annotation           *)
(* `data: dict` (a body that is not a JSON object is answered 422 and the  *)
(* handler is never called), the handler runs, and the framework sends the *)
(* handler's return value as the 200 response.  The handler holds no await *)
(* so its body is one atomic step; the steps of different requests         *)
(* interleave freely.                                                      *)
(***************************************************************************)
EXTENDS Integers, Sequences, FiniteSets, TLC

VARIABLES pc, body, data, ret, resp

vars == <<pc, body, data, ret, resp>>

(***************************************************************************)
(* Bounds.                                                                 *)
(***************************************************************************)
\* Number of requests a behaviour holds (posted in any order, interleaved).
NumRequests == 3

Requests == 1..NumRequests

(***************************************************************************)
(* JSON values.  A number is a decimal literal int.frac with one fraction  *)
(* digit (8000 is Num(8000, 0), 1.5 is Num(1, 5), 0.2 is Num(0, 2)); the   *)
(* negative numbers used are whole.                                        *)
(***************************************************************************)
Num(i, f) == [type |-> "number", int |-> i, frac |-> f]
Str(s)    == [type |-> "string", s |-> s]
Arr(xs)   == [type |-> "array", items |-> xs]
Obj(d)    == [type |-> "object", fields |-> d]

\* Placeholders of a request's slots that hold nothing yet.
None == [type |-> "none"]

(***************************************************************************)
(* Request bodies the clients send.  Field names are those of the          *)
(* StabilityInput structure.                                               *)
(***************************************************************************)
EmptyDict == [k \in {} |-> None]

CargoItem == ("weight" :> Num(100, 0)) @@ ("longitudinal_position" :> Num(10, 0))

\* {displacement_tonnes: 8000, center_of_gravity_height: 6.0,
\*  center_of_buoyancy_height: 7.5, beam: 20}
ExampleInput ==
    ("displacement_tonnes" :> Num(8000, 0)) @@
    ("center_of_gravity_height" :> Num(6, 0)) @@
    ("center_of_buoyancy_height" :> Num(7, 5)) @@
    ("beam" :> Num(20, 0))

\* Complete input, equal heights, no beam, no cargo_distribution.
LevelInput ==
    ("displacement_tonnes" :> Num(5000, 0)) @@
    ("center_of_gravity_height" :> Num(6, 0)) @@
    ("center_of_buoyancy_height" :> Num(6, 0))

\* Complete input with a cargo distribution of one item.
CargoInput ==
    ("displacement_tonnes" :> Num(100, 0)) @@
    ("center_of_gravity_height" :> Num(6, 0)) @@
    ("center_of_buoyancy_height" :> Num(7, 5)) @@
    ("cargo_distribution" :> Arr(<<Obj(CargoItem)>>))

\* displacement_tonnes is negative.
NegativeInput ==
    ("displacement_tonnes" :> Num(-5, 0)) @@
    ("center_of_gravity_height" :> Num(6, 0)) @@
    ("center_of_buoyancy_height" :> Num(7, 5))

\* displacement_tonnes is absent and no cargo weights stand in for it.
MissingInput ==
    ("center_of_gravity_height" :> Num(6, 0)) @@
    ("center_of_buoyancy_height" :> Num(7, 5))

\* displacement_tonnes is not a number.
TextInput ==
    ("displacement_tonnes" :> Str("heavy")) @@
    ("center_of_gravity_height" :> Num(6, 0)) @@
    ("center_of_buoyancy_height" :> Num(7, 5))

Dicts ==
    {EmptyDict, ExampleInput, LevelInput, CargoInput, NegativeInput,
     MissingInput, TextInput}

\* JSON bodies that are no object: [] and 8000.
NonDicts == {Arr(<<>>), Num(8000, 0)}

Bodies == {Obj(d) : d \in Dicts} \cup NonDicts

(***************************************************************************)
(* The handler.                                                            *)
(***************************************************************************)
\* Variants of the handler with a plausible slip each; no action uses them.
\* The handler echoes the displacement it was sent.
calculate_stability_passthrough(d) ==
    [displacement  |-> IF "displacement_tonnes" \in DOMAIN d
                       THEN d["displacement_tonnes"] ELSE Num(8000, 0),
     estimatedGM   |-> Num(1, 5),
     estimatedTrim |-> Num(0, 2)]

\* The handler keeps a module-level count of the requests answered so far
\* and lets it leak into the result.
calculate_stability_counting(d) ==
    [displacement  |-> Num(8000 + Cardinality({q \in Requests : pc[q] = "done"}), 0),
     estimatedGM   |-> Num(1, 5),
     estimatedTrim |-> Num(0, 2)]

\* The handler builds its result in a module-level object that the
\* invocations in flight share.
calculate_stability_shared(d) ==
    [displacement  |-> Num(8000 + Cardinality({q \in Requests :
                                   pc[q] \in {"handling", "returned"}}), 0),
     estimatedGM   |-> Num(1, 5),
     estimatedTrim |-> Num(0, 2)]

\* The handler returns before the trim is filled in.
calculate_stability_partial(d) ==
    [displacement  |-> Num(8000, 0),
     estimatedGM   |-> Num(1, 5)]

\* The handler returns the metacentric height as text.
calculate_stability_text(d) ==
    [displacement  |-> Num(8000, 0),
     estimatedGM   |-> Str("1.5"),
     estimatedTrim |-> Num(0, 2)]

\* async def calculate_stability(data: dict): return {...}
calculate_stability(d) ==
    [displacement  |-> Num(8000, 0),
     estimatedGM   |-> Num(1, 5),
     estimatedTrim |-> Num(0, 2)]

\* The framework's check of the body against the annotation `data: dict`.
IsDict(b) == b.type = "object"

\* The framework's answers: 200 with the handler's return value as the JSON
\* content, 422 with an error description when the body is no dict.
Ok(value)  == [status |-> 200, content |-> value]
Unprocessable == [status |-> 422, content |-> [detail |-> "body: not a valid dict"]]

(***************************************************************************)
(* State.  pc[r] is the position of request r; body[r] is what the client  *)
(* sent; data[r] and ret[r] are the argument and the return value of r's   *)
(* handler invocation; resp[r] is the response sent.                       *)
(***************************************************************************)
Init ==
    /\ pc   = [r \in Requests |-> "idle"]
    /\ body = [r \in Requests |-> None]
    /\ data = [r \in Requests |-> None]
    /\ ret  = [r \in Requests |-> None]
    /\ resp = [r \in Requests |-> None]

\* A client sends POST /calculate-stability with body b.
Post(r, b) ==
    /\ pc[r] = "idle"
    /\ pc' = [pc EXCEPT ![r] = "received"]
    /\ body' = [body EXCEPT ![r] = b]
    /\ UNCHANGED <<data, ret, resp>>

\* The body is a JSON object: it is bound to the parameter data.
Bind(r) ==
    /\ pc[r] = "received"
    /\ IsDict(body[r])
    /\ data' = [data EXCEPT ![r] = body[r].fields]
    /\ pc' = [pc EXCEPT ![r] = "handling"]
    /\ UNCHANGED <<body, ret, resp>>

\* The body is no JSON object: 422, the handler is not called.
Reject(r) ==
    /\ pc[r] = "received"
    /\ ~IsDict(body[r])
    /\ resp' = [resp EXCEPT ![r] = Unprocessable]
    /\ pc' = [pc EXCEPT ![r] = "done"]
    /\ UNCHANGED <<body, data, ret>>

\* The handler runs to its return statement.
Call(r) ==
    /\ pc[r] = "handling"
    /\ ret' = [ret EXCEPT ![r] = calculate_stability(data[r])]
    /\ pc' = [pc EXCEPT ![r] = "returned"]
    /\ UNCHANGED <<body, data, resp>>

\* The return value is sent as the 200 response.
Respond(r) ==
    /\ pc[r] = "returned"
    /\ resp' = [resp EXCEPT ![r] = Ok(ret[r])]
    /\ pc' = [pc EXCEPT ![r] = "done"]
    /\ UNCHANGED <<body, data, ret>>

Next ==
    \E r \in Requests :
        \/ \E b \in Bodies : Post(r, b)
        \/ Bind(r)
        \/ Reject(r)
        \/ Call(r)
        \/ Respond(r)

Spec == Init /\ [][Next]_vars

\* What one request with body b is answered when it is the only request.
ServedAlone(b) ==
    IF IsDict(b) THEN Ok(calculate_stability(b.fields)) ELSE Unprocessable

(***************************************************************************)
(* Vocabulary of the properties: the StabilityInput and StabilityResult    *)
(* structures and their stated invariants.                                 *)
(***************************************************************************)
ResultFields == {"displacement", "estimatedGM", "estimatedTrim"}

ValidationFailure == {400, 422}

Has(d, f) == f \in DOMAIN d

IsNumber(v) == v.type = "number"

NonNegative(v) == IsNumber(v) /\ v.int >= 0

Zero == Num(0, 0)

Add(a, b) ==
    Num(a.int + b.int + ((a.frac + b.frac) \div 10), (a.frac + b.frac) % 10)

RECURSIVE SumWeights(_)
SumWeights(items) ==
    IF items = <<>> THEN Zero
    ELSE Add(Head(items).fields["weight"], SumWeights(Tail(items)))

\* The input names its displacement, or cargo weights that add up to it.
SuppliesDisplacement(d) ==
    \/ Has(d, "displacement_tonnes")
    \/ Has(d, "cargo_distribution") /\ d["cargo_distribution"].items # <<>>

NegativeDisplacement(d) ==
    /\ Has(d, "displacement_tonnes")
    /\ IsNumber(d["displacement_tonnes"])
    /\ d["displacement_tonnes"].int < 0

\* Required fields present and numeric, weights and lengths non-negative.
ValidInput(d) ==
    /\ Has(d, "displacement_tonnes") /\ NonNegative(d["displacement_tonnes"])
    /\ Has(d, "center_of_gravity_height") /\ IsNumber(d["center_of_gravity_height"])
    /\ Has(d, "center_of_buoyancy_height") /\ IsNumber(d["center_of_buoyancy_height"])
    /\ Has(d, "beam") => NonNegative(d["beam"])

\* The displacements a valid input stands for.
DisplacementOf(d) ==
    {d["displacement_tonnes"]} \cup
    (IF Has(d, "cargo_distribution")
     THEN {SumWeights(d["cargo_distribution"].items)} ELSE {})

\* No beam, or a beam of zero: the metacentric radius derived from it is zero.
ZeroBM(d) == Has(d, "beam") => d["beam"] = Zero

Answered(r) == pc[r] = "done"

\* Request r was answered and its body was the JSON object of a valid input.
AnsweredValid(r) ==
    Answered(r) /\ IsDict(body[r]) /\ ValidInput(body[r].fields)

(***************************************************************************)
(* Properties.                                                             *)
(***************************************************************************)

\* C1: a request whose body lacks displacement_tonnes (and supplies no
\* equivalent) ends in a validation failure, never in a successful result
\* with a substituted displacement.
C1_MissingDisplacementRejected ==
    \A r \in Requests :
        (Answered(r) /\ IsDict(body[r]) /\ ~SuppliesDisplacement(body[r].fields))
            => resp[r].status \in ValidationFailure

\* C2: a request whose displacement_tonnes is negative fails with a
\* validation error, and every successful result has displacement >= 0.
C2_NegativeDisplacementRejected ==
    \A r \in Requests :
        Answered(r) =>
            /\ (IsDict(body[r]) /\ NegativeDisplacement(body[r].fields))
                   => resp[r].status \in ValidationFailure
            /\ resp[r].status = 200 => NonNegative(resp[r].content.displacement)

\* C3: for a valid input the displacement of the result is the supplied
\* displacement_tonnes (or the sum of the supplied weights).
C3_DisplacementFromInput ==
    \A r \in Requests :
        AnsweredValid(r) =>
            /\ resp[r].status = 200
            /\ resp[r].content.displacement \in DisplacementOf(body[r].fields)

\* C4: a valid input that omits cargo_distribution is answered successfully
\* with estimatedTrim = 0.0.
C4_NoCargoNeutralTrim ==
    \A r \in Requests :
        (AnsweredValid(r) /\ ~Has(body[r].fields, "cargo_distribution")) =>
            /\ resp[r].status = 200
            /\ resp[r].content.estimatedTrim = Zero

\* C5: a valid input with equal heights of the centres of buoyancy and of
\* gravity and a zero beam-derived BM is answered with estimatedGM = 0.
C5_LevelCentresZeroGM ==
    \A r \in Requests :
        (/\ AnsweredValid(r)
         /\ body[r].fields["center_of_buoyancy_height"]
                = body[r].fields["center_of_gravity_height"]
         /\ ZeroBM(body[r].fields)) =>
            /\ resp[r].status = 200
            /\ resp[r].content.estimatedGM = Zero

\* C6: a request ends either in an error response with no result field or
\* in a success response with all three result fields; nothing is answered
\* before that, and no result value is computed for a request whose body
\* failed validation.
C6_ErrorOrCompleteResult ==
    \A r \in Requests :
        /\ ~Answered(r) => resp[r] = None
        /\ Answered(r) =>
               \/ /\ resp[r].status \in ValidationFailure
                  /\ DOMAIN resp[r].content \cap ResultFields = {}
                  /\ ret[r] = None
               \/ /\ resp[r].status = 200
                  /\ ResultFields \subseteq DOMAIN resp[r].content
        /\ (pc[r] # "idle" /\ ~IsDict(body[r])) => (data[r] = None /\ ret[r] = None)

C6_Witness ==
    \E r, q \in Requests :
        /\ Answered(r) /\ resp[r].status = 422
        /\ Answered(q) /\ resp[q].status = 200

\* C7: two answered requests with identical input have identical responses,
\* whatever was served before or between them.
C7_SameInputSameOutput ==
    \A r, q \in Requests :
        (Answered(r) /\ Answered(q) /\ body[r] = body[q]) => resp[r] = resp[q]

C7_Witness ==
    \E r, q, s \in Requests :
        /\ r # q
        /\ Answered(r) /\ Answered(q) /\ Answered(s)
        /\ IsDict(body[r]) /\ body[r] = body[q]
        /\ body[s] # body[r]

\* C8: under any interleaving, the argument, the return value and the
\* response of each request are those the request has when it runs alone.
C8_AsIfAlone ==
    \A r \in Requests :
        /\ pc[r] \in {"handling", "returned"} => data[r] = body[r].fields
        /\ pc[r] = "returned" => Ok(ret[r]) = ServedAlone(body[r])
        /\ Answered(r) => resp[r] = ServedAlone(body[r])

C8_Witness ==
    \E r, q, s \in Requests :
        /\ pc[r] = "returned" /\ pc[q] = "returned" /\ body[r] # body[q]
        /\ Answered(s) /\ body[s] \notin {body[r], body[q]}

\* C9: a 200 response is an object with exactly the fields displacement,
\* estimatedGM and estimatedTrim, each a number.
C9_SuccessShape ==
    \A r \in Requests :
        (Answered(r) /\ resp[r].status = 200) =>
            /\ DOMAIN resp[r].content = ResultFields
            /\ \A f \in ResultFields : IsNumber(resp[r].content[f])

C9_Witness ==
    \E r \in Requests : Answered(r) /\ resp[r].status = 200

\* C10: every body that reaches the handler (any JSON object, the empty one
\* included) is answered 200 with displacement 8000, estimatedGM 1.5 and
\* estimatedTrim 0.2.
C10_ConstantResponse ==
    \A r \in Requests :
        (Answered(r) /\ IsDict(body[r])) =>
            /\ resp[r].status = 200
            /\ resp[r].content.displacement = Num(8000, 0)
            /\ resp[r].content.estimatedGM = Num(1, 5)
            /\ resp[r].content.estimatedTrim = Num(0, 2)

C10_Witness ==
    \E r, q \in Requests :
        /\ Answered(r) /\ body[r] = Obj(EmptyDict)
        /\ Answered(q) /\ body[q] = Obj(LevelInput)
        /\ resp[r] = resp[q]

====
